---- MODULE Spec2Model ----
(***************************************************************************)
(* A model of the key-value server: the RESP wire codec (parser.rs), the   *)
(* command classifier (message.rs) and the per-connection dispatcher with  *)
(* its store and passive expiration (main.rs).                             *)
(*                                                                         *)
(* Text is modelled as a sequence of one-character strings, one per byte   *)
(* (only ASCII text is used, so chars and bytes coincide).                 *)
(***************************************************************************)
EXTENDS Integers, Sequences, FiniteSets, TLC

VARIABLES
    rdb,      \* main: the Arc<HashMap<String, DurableValue>> shared by all workers
    proc,     \* the server process: "running" or "aborted"
    conn,     \* per connection: the worker's status and its private store
    ev,       \* the last handler run: connection, command, key, bytes written
    wall,     \* SystemTime::now(), in wall-clock units
    mono,     \* Instant::now(), in ticks of the monotonic clock's resolution
    config,   \* the process-wide CONFIG: the optional dir and dbfilename
    codec,    \* the codec workbench: a value or a buffer run through the codec
    bench     \* the workbench of the classifier, the configuration and the
              \* snapshot decoder: an input and what the code makes of it

vars == <<rdb, proc, conn, ev, wall, mono, config, codec, bench>>

----------------------------------------------------------------------------
(* Bounds *)

StackDepth == 6     \* stack frames a thread has for nested to_string calls
MaxWall == 1        \* the wall clock runs 0..MaxWall
MaxMono == 2        \* the monotonic clock runs 0..MaxMono
TicksPerMilli == 1  \* monotonic clock ticks per millisecond

----------------------------------------------------------------------------
(* Text helpers *)

CR == "\r"
LF == "\n"
CRLF == <<CR, LF>>

DigitChars == <<"0", "1", "2", "3", "4", "5", "6", "7", "8", "9">>

IsDigit(c) == \E i \in 1..10 : DigitChars[i] = c

DigitVal(c) == (CHOOSE i \in 1..10 : DigitChars[i] = c) - 1

Drop(s, n) == SubSeq(s, n + 1, Len(s))

Take(s, n) == SubSeq(s, 1, n)

StartsWith(s, p) == Len(s) >= Len(p) /\ Take(s, Len(p)) = p

\* the index of the first occurrence of pat in s, 0 when there is none
FindSeq(s, pat) ==
    LET hits == {i \in 1..(Len(s) + 1 - Len(pat)) : SubSeq(s, i, i + Len(pat) - 1) = pat}
    IN  IF hits = {} THEN 0 ELSE CHOOSE i \in hits : \A j \in hits : i <= j

RECURSIVE NatToDec(_)
NatToDec(n) ==
    IF n < 10 THEN <<DigitChars[n + 1]>>
    ELSE NatToDec(n \div 10) \o <<DigitChars[(n % 10) + 1]>>

\* isize::to_string / usize::to_string
IntToDec(n) == IF n < 0 THEN <<"-">> \o NatToDec(0 - n) ELSE NatToDec(n)

RECURSIVE DecToNat(_)
DecToNat(s) ==
    IF Len(s) = 0 THEN 0
    ELSE 10 * DecToNat(Take(s, Len(s) - 1)) + DigitVal(s[Len(s)])

AllDigits(s) == Len(s) >= 1 /\ \A i \in 1..Len(s) : IsDigit(s[i])

\* str::parse::<isize>: an optional sign, then one or more digits
ParseIsize(s) ==
    IF Len(s) >= 1 /\ s[1] \in {"+", "-"}
    THEN IF AllDigits(Drop(s, 1))
         THEN [ok |-> TRUE, n |-> IF s[1] = "-" THEN 0 - DecToNat(Drop(s, 1)) ELSE DecToNat(Drop(s, 1))]
         ELSE [ok |-> FALSE, n |-> 0]
    ELSE IF AllDigits(s) THEN [ok |-> TRUE, n |-> DecToNat(s)]
         ELSE [ok |-> FALSE, n |-> 0]

\* str::parse::<usize>: an optional plus sign, then one or more digits
ParseUsize(s) ==
    IF Len(s) >= 1 /\ s[1] = "+"
    THEN IF AllDigits(Drop(s, 1)) THEN [ok |-> TRUE, n |-> DecToNat(Drop(s, 1))]
         ELSE [ok |-> FALSE, n |-> 0]
    ELSE IF AllDigits(s) THEN [ok |-> TRUE, n |-> DecToNat(s)]
         ELSE [ok |-> FALSE, n |-> 0]

----------------------------------------------------------------------------
(* Wire values: parser.rs, enum Value / BulkString / Array / Error *)

VString(s) == [t |-> "String", s |-> s]
VBulk(s) == [t |-> "BulkString", b |-> "String", s |-> s]
VBulkEmpty == [t |-> "BulkString", b |-> "Empty", s |-> <<>>]
VBulkNull == [t |-> "BulkString", b |-> "Null", s |-> <<>>]
VError(title, message) == [t |-> "Error", title |-> title, message |-> message]
VInt(n) == [t |-> "Int", n |-> n]
VItems(items) == [t |-> "Array", a |-> "Items", items |-> items]
VArrEmpty == [t |-> "Array", a |-> "Empty", items |-> <<>>]
VArrNull == [t |-> "Array", a |-> "Null", items |-> <<>>]

----------------------------------------------------------------------------
(* Encoding: the ToString impls of parser.rs.  An encoding result is the   *)
(* text, or ok = FALSE when the nested calls ran out of stack.             *)

Done(s) == [ok |-> TRUE, s |-> s]
Overflow == [ok |-> FALSE, s |-> <<>>]

\* impl ToString for BulkString
BulkToString(v) ==
    CASE v.b = "String" -> <<"$">> \o IntToDec(Len(v.s)) \o CRLF \o v.s \o CRLF
      [] v.b = "Empty" -> <<"$", "0">> \o CRLF \o CRLF
      [] v.b = "Null" -> <<"$", "-", "1">> \o CRLF

RECURSIVE ValueToString(_, _)
RECURSIVE ConcatToString(_, _, _)

\* arr.iter().map(ToString::to_string).collect::<String>()
ConcatToString(items, i, depth) ==
    IF i > Len(items) THEN Done(<<>>)
    ELSE LET head == ValueToString(items[i], depth)
             tail == ConcatToString(items, i + 1, depth)
         IN  IF head.ok /\ tail.ok THEN Done(head.s \o tail.s) ELSE Overflow

\* impl ToString for Array; depth is the stack left for the calls it makes
ArrayToString(v, depth) ==
    CASE v.a = "Items" ->
            LET body == ConcatToString(v.items, 1, depth)
            IN  IF body.ok THEN Done(<<"*">> \o IntToDec(Len(v.items)) \o CRLF \o body.s)
                ELSE Overflow
      [] v.a = "Empty" -> Done(<<"*", "0">> \o CRLF)
      [] v.a = "Null" -> Done(<<"*", "-", "1">> \o CRLF)

\* impl ToString for Value; depth is the number of stack frames left.  In the
\* BulkString and Array arms the binding (b @ .., a @ ..) is the &Value
\* itself, so the call is Value::to_string on the same value again.
ValueToString(v, depth) ==
    IF depth = 0 THEN Overflow
    ELSE CASE v.t = "String" -> Done(<<"+">> \o v.s \o CRLF)
           [] v.t = "BulkString" -> ValueToString(v, depth - 1)
           [] v.t = "Error" ->
                Done(<<"-">> \o v.title
                     \o (IF v.message = <<>> THEN <<>> ELSE <<" ">>)
                     \o v.message)
           [] v.t = "Int" -> Done(<<":">> \o IntToDec(v.n) \o CRLF)
           [] v.t = "Array" -> ValueToString(v, depth - 1)

----------------------------------------------------------------------------
(* Decoding: the nom parsers of parser.rs.  A result is ok with the value  *)
(* and the remaining input, or not ok.                                     *)

POk(rest, val) == [ok |-> TRUE, rest |-> rest, val |-> val]
PErr == [ok |-> FALSE, rest |-> <<>>, val |-> VBulkNull]

\* delimited(tag(lead), take_until("\r\n"), tag("\r\n")): the text between
LineAfter(input, lead) ==
    IF ~StartsWith(input, <<lead>>) THEN [ok |-> FALSE, rest |-> <<>>, line |-> <<>>]
    ELSE LET body == Drop(input, 1)
             at == FindSeq(body, CRLF)
         IN  IF at = 0 THEN [ok |-> FALSE, rest |-> <<>>, line |-> <<>>]
             ELSE [ok |-> TRUE, rest |-> Drop(body, at + 1), line |-> Take(body, at - 1)]

simple_str(input) ==
    LET l == LineAfter(input, "+")
    IN  IF l.ok THEN POk(l.rest, VString(l.line)) ELSE PErr

\* the length in the header only selects the variant; the body is the text up
\* to the next "\r\n", and opt(..) makes an absent body the empty text
bulk_str(input) ==
    LET head == LineAfter(input, "$")
        size == ParseIsize(head.line)
    IN  IF ~head.ok \/ ~size.ok THEN PErr
        ELSE IF size.n = -1 THEN POk(head.rest, VBulkNull)
        ELSE LET at == FindSeq(head.rest, CRLF)
                 res == IF at = 0 THEN <<>> ELSE Take(head.rest, at - 1)
                 next == IF at = 0 THEN head.rest ELSE Drop(head.rest, at + 1)
             IN  IF size.n = 0 THEN POk(next, VBulkEmpty)
                 ELSE POk(next, VBulk(res))

int(input) ==
    LET l == LineAfter(input, ":")
        n == IF StartsWith(l.line, <<"+">>) THEN ParseIsize(Drop(l.line, 1))
             ELSE ParseIsize(l.line)
    IN  IF l.ok /\ n.ok THEN POk(l.rest, VInt(n.n)) ELSE PErr

SplitOnce(s) ==
    LET at == FindSeq(s, <<" ">>)
    IN  IF at = 0 THEN [ok |-> FALSE, l |-> <<>>, r |-> <<>>]
        ELSE [ok |-> TRUE, l |-> Take(s, at - 1), r |-> Drop(s, at)]

error(input) ==
    LET l == LineAfter(input, "-")
        entry == SplitOnce(l.line)
    IN  IF ~l.ok THEN PErr
        ELSE IF entry.ok THEN POk(l.rest, VError(entry.l, entry.r))
        ELSE POk(l.rest, VError(l.line, <<>>))

RECURSIVE parser(_)
RECURSIVE many_m_n(_, _, _)

\* many_m_n(n, n, alt(..)): n values in a row, an error when one is missing.
\* acc holds the values decoded so far.
many_m_n(input, n, acc) ==
    IF Len(acc) = n THEN [ok |-> TRUE, rest |-> input, vals |-> acc]
    ELSE LET r == parser(input)
         IN  IF ~r.ok THEN [ok |-> FALSE, rest |-> <<>>, vals |-> <<>>]
             ELSE many_m_n(r.rest, n, Append(acc, r.val))

\* a negative count cast to usize asks for more values than any buffer holds,
\* so many_m_n fails; opt(..) turns every failure into None without consuming
arr(input) ==
    LET head == LineAfter(input, "*")
        size == ParseIsize(head.line)
        many == IF size.n < 0 THEN [ok |-> FALSE, rest |-> <<>>, vals |-> <<>>]
                ELSE many_m_n(head.rest, size.n, <<>>)
        next == IF many.ok THEN many.rest ELSE head.rest
        res == IF many.ok THEN many.vals ELSE <<>>
    IN  IF ~head.ok \/ ~size.ok THEN PErr
        ELSE IF size.n = -1 THEN POk(next, VArrNull)
        ELSE IF size.n = 0 THEN POk(next, VArrEmpty)
        ELSE POk(next, VItems(res))

\* alt((simple_str, int, bulk_str, error, arr)): each starts with its own tag
parser(input) ==
    IF Len(input) = 0 THEN PErr
    ELSE CASE input[1] = "+" -> simple_str(input)
           [] input[1] = ":" -> int(input)
           [] input[1] = "$" -> bulk_str(input)
           [] input[1] = "-" -> error(input)
           [] input[1] = "*" -> arr(input)
           [] OTHER -> PErr

----------------------------------------------------------------------------
(* Command model: message.rs *)

UpperChars == <<"A", "B", "C", "D", "E", "F", "G", "H", "I", "J", "K", "L", "M",
                "N", "O", "P", "Q", "R", "S", "T", "U", "V", "W", "X", "Y", "Z">>

LowerChars == <<"a", "b", "c", "d", "e", "f", "g", "h", "i", "j", "k", "l", "m",
                "n", "o", "p", "q", "r", "s", "t", "u", "v", "w", "x", "y", "z">>

to_lowercase(s) ==
    [i \in 1..Len(s) |->
        IF \E j \in 1..26 : UpperChars[j] = s[i]
        THEN LowerChars[CHOOSE j \in 1..26 : UpperChars[j] = s[i]]
        ELSE s[i]]

\* BulkString::inner
inner(v) == IF v.b = "String" THEN v.s ELSE <<>>

IsBulk(v) == v.t = "BulkString"

Keyword(v, word) == IsBulk(v) /\ to_lowercase(inner(v)) = word

NoExpiry == [some |-> FALSE, n |-> 0]

Msg(m, key, val, expiry) == [m |-> m, key |-> key, val |-> val, expiry |-> expiry]

\* impl TryFrom<Value> for RespMessage.  "Err" is the Err((..)) result; "Panic"
\* is the expect() on a PX argument that is not a number.
Classify(value) ==
    IF ~(value.t = "Array" /\ value.a = "Items") THEN Msg("Err", <<>>, value, NoExpiry)
    ELSE LET e == value.items
             n == Len(e)
         IN  IF n = 2 /\ Keyword(e[1], <<"g", "e", "t">>) /\ IsBulk(e[2])
                THEN Msg("Get", inner(e[2]), VBulkNull, NoExpiry)
             ELSE IF n = 2 /\ Keyword(e[1], <<"k", "e", "y">>) /\ IsBulk(e[2])
                THEN Msg("Key", inner(e[2]), VBulkNull, NoExpiry)
             ELSE IF n = 3 /\ Keyword(e[1], <<"c", "o", "n", "f", "i", "g">>)
                           /\ Keyword(e[2], <<"g", "e", "t">>) /\ IsBulk(e[3])
                THEN Msg("ConfigGet", inner(e[3]), VBulkNull, NoExpiry)
             ELSE IF n >= 3 /\ Keyword(e[1], <<"s", "e", "t">>) /\ IsBulk(e[2])
                THEN IF n >= 5 /\ Keyword(e[4], <<"p", "x">>) /\ IsBulk(e[5])
                     THEN LET millis == ParseUsize(inner(e[5]))
                          IN  IF millis.ok
                              THEN Msg("Set", inner(e[2]), e[3], [some |-> TRUE, n |-> millis.n])
                              ELSE Msg("Panic", <<>>, value, NoExpiry)
                     ELSE Msg("Set", inner(e[2]), e[3], NoExpiry)
             ELSE IF n = 2 /\ Keyword(e[1], <<"e", "c", "h", "o">>) /\ IsBulk(e[2])
                THEN Msg("Echo", <<>>, e[2], NoExpiry)
             ELSE IF n = 1 /\ Keyword(e[1], <<"p", "i", "n", "g">>)
                THEN Msg("Ping", <<>>, VBulkNull, NoExpiry)
             ELSE Msg("Err", <<>>, value, NoExpiry)

----------------------------------------------------------------------------
(* Store: main.rs, DurableValue and Expiration *)

ExpEmpty == [e |-> "Empty", time |-> 0, duration |-> 0, insert_at |-> 0]
ExpDate(time) == [e |-> "Date", time |-> time, duration |-> 0, insert_at |-> 0]
ExpPeriod(duration, insert_at) ==
    [e |-> "Period", time |-> 0, duration |-> duration, insert_at |-> insert_at]

DurableValue(val, expiration) == [val |-> val, expiration |-> expiration]

\* Duration::from_millis, in ticks of the monotonic clock
from_millis(millis) == millis * TicksPerMilli

\* Expiration::elapsed at wall-clock time w and monotonic time m
elapsed(exp, w, m) ==
    CASE exp.e = "Empty" -> FALSE
      [] exp.e = "Date" -> w >= exp.time
      [] exp.e = "Period" -> m - exp.insert_at > exp.duration

EmptyStore == [k \in {} |-> DurableValue(VBulkNull, ExpEmpty)]

\* HashMap::insert
Insert(store, key, dv) ==
    [k \in DOMAIN store \cup {key} |-> IF k = key THEN dv ELSE store[k]]

\* HashMap::remove
Remove(store, key) == [k \in DOMAIN store \ {key} |-> store[k]]

\* HashMap::get(..).unwrap_or(&DurableValue { Null, Empty })
GetOr(store, key) ==
    IF key \in DOMAIN store THEN store[key] ELSE DurableValue(VBulkNull, ExpEmpty)

\* the orders in which HashMap::keys may yield the keys
KeyOrders(store) ==
    {o \in [1..Cardinality(DOMAIN store) -> DOMAIN store] :
        \A i, j \in DOMAIN o : i # j => o[i] # o[j]}

----------------------------------------------------------------------------
(* Replies *)

\* DurableValue::reply: stream.write(self.val.to_string().as_bytes())
DurableReply(dv) == ValueToString(dv.val, StackDepth)

\* the reply of a Value: its encoding written to the stream
ValueReply(v) == ValueToString(v, StackDepth)

\* Config::dir_to_value
dir_to_value(cfg) ==
    IF cfg.dir.some
    THEN VItems(<<VBulk(<<"d", "i", "r">>), VBulk(cfg.dir.s)>>)
    ELSE VArrEmpty

\* Config::filename_to_value
filename_to_value(cfg) ==
    IF cfg.dir.some
    THEN VItems(<<VBulk(<<"d", "b", "f", "i", "l", "e", "n", "a", "m", "e">>), VBulk(cfg.dir.s)>>)
    ELSE VArrEmpty

----------------------------------------------------------------------------
(* The inputs of the model *)

Conns == {1, 2}

KeyA == <<"a">>
KeyB == <<"b">>
Key125 == <<"1", "2", "5">>

RECURSIVE BulkFrames(_)
BulkFrames(parts) ==
    IF Len(parts) = 0 THEN <<>>
    ELSE BulkToString(VBulk(parts[1])) \o BulkFrames(Drop(parts, 1))

\* the frame a client sends for a command: an array of bulk strings
Command(parts) == <<"*">> \o IntToDec(Len(parts)) \o CRLF \o BulkFrames(parts)

WGet == <<"G", "E", "T">>
WSet == <<"s", "e", "t">>
WPx == <<"P", "x">>

\* a byte that occurs in no UTF-8 text
Byte0xFF == "0xFF"

\* String::from_utf8(..).is_ok(), for buffers of ASCII text and 0xFF bytes
from_utf8(buffer) == \A i \in DOMAIN buffer : buffer[i] # Byte0xFF

\* the buffers a read may deliver; buf below is an index into them
Requests ==
    << Command(<<<<"P", "i", "N", "g">>>>),
      Command(<<<<"E", "C", "H", "O">>, <<"h", "e", "y">>>>),
      Command(<<WSet, KeyA, <<"x">>>>),
      <<"*", "5">> \o CRLF \o BulkFrames(<<WSet, KeyA>>) \o <<"+", "y">> \o CRLF
          \o BulkFrames(<<WPx, <<"0">>>>),
      <<"*", "5">> \o CRLF \o BulkFrames(<<WSet, KeyA>>) \o <<"+", "y">> \o CRLF
          \o BulkFrames(<<WPx, <<"1">>>>),
      Command(<<WSet, KeyA, <<"x">>, WPx, <<"s", "o", "o", "n">>>>),
      Command(<<WGet, KeyA>>),
      Command(<<WGet, KeyB>>),
      Command(<<<<"K", "E", "Y">>, <<"*">>>>),
      Command(<<<<"K", "E", "Y", "S">>, <<"*">>>>),
      Command(<<<<"C", "O", "N", "F", "I", "G">>, WGet, <<"d", "i", "r">>>>),
      Command(<<<<"C", "O", "N", "F", "I", "G">>, WGet, <<"d", "b", "f", "i", "l", "e", "n", "a", "m", "e">>>>),
      <<"G", "E", "T", " ", "a">> \o CRLF,
      Command(<<<<"D", "E", "L">>, KeyA>>),
      <<"+", "P", "I", "N", "G">> \o CRLF,
      Take(Command(<<WGet, KeyA>>), 15),
      <<Byte0xFF>> \o Command(<<WGet, KeyA>>),
      Command(<<WGet, Key125>>) >>

\* what the worker makes of each buffer: parser, then try_into
Decode == [buf \in DOMAIN Requests |-> parser(Requests[buf])]

Message == [buf \in DOMAIN Requests |-> IF Decode[buf].ok THEN Classify(Decode[buf].val) ELSE Msg("Err", <<>>, VBulkNull, NoExpiry)]

\* the buffers by what the worker makes of them
NotUtf8 == {buf \in DOMAIN Requests : ~from_utf8(Requests[buf])}

Undecodable == {buf \in DOMAIN Requests \ NotUtf8 : ~Decode[buf].ok}

Classified == [m \in {"Err", "Panic", "Ping", "Echo", "Set", "Get", "ConfigGet", "Key"} |->
                {buf \in DOMAIN Requests \ NotUtf8 : Decode[buf].ok /\ Message[buf].m = m}]

None == [some |-> FALSE, s |-> <<>>]
Some(s) == [some |-> TRUE, s |-> s]

\* the configurations the process may be started with
Configs ==
    { [dir |-> None, filename |-> None],
      [dir |-> Some(<<"/", "d">>), filename |-> Some(<<"f">>)] }

\* the datasets a snapshot file may decode to: values are simple strings
Datasets ==
    { EmptyStore,
      [k \in {KeyB} |-> DurableValue(VString(<<"v">>), ExpEmpty)],
      [k \in {KeyB} |-> DurableValue(VString(<<"v">>), ExpDate(1))] }

----------------------------------------------------------------------------
(* The server: main.rs *)

NoEvent == [c |-> 0, cmd |-> "none", key |-> <<>>, w |-> "none", s |-> <<>>]

Event(c, cmd, key, w, s) == [c |-> c, cmd |-> cmd, key |-> key, w |-> w, s |-> s]

CodecIdle == [pc |-> "idle", v |-> VBulkNull, b |-> <<>>, out |-> Done(<<>>), dec |-> PErr]

BenchIdle == [pc |-> "idle"]

\* main, up to the bind: CONFIG is set and the snapshot, if configured and
\* present, is the shared dataset
Init ==
    /\ config \in Configs
    /\ rdb \in IF config.dir.some /\ config.filename.some THEN Datasets ELSE {EmptyStore}
    /\ proc = "running"
    /\ conn = [c \in Conns |-> [status |-> "none", store |-> EmptyStore]]
    /\ ev = NoEvent
    /\ wall = 0
    /\ mono = 0
    /\ codec = CodecIdle
    /\ bench = BenchIdle

\* main's accept loop and the head of handle_requests: the store is built
\* from a clone of every entry of rdb, then the worker is spawned
Accept(c) ==
    /\ proc = "running"
    /\ conn[c].status = "none"
    /\ conn' = [conn EXCEPT ![c] = [status |-> "open", store |-> rdb]]
    /\ ev' = Event(c, "Accept", <<>>, "none", <<>>)
    /\ UNCHANGED <<rdb, proc, wall, mono, config, codec, bench>>

\* a worker can take a read
Serving(c) == proc = "running" /\ conn[c].status = "open"

\* what becomes of a worker whose reply enc was encoded: it wrote the bytes,
\* or the encoding never returns, and then the worker either overflows its
\* stack, which aborts the process, or spins in the call forever
Outcomes(enc) == IF enc.ok THEN {"written"} ELSE {"abort", "hang"}

\* the end of a handler that replies enc, leaving store as the worker's store;
\* a process that aborts takes every worker and store with it
Respond(c, store, cmd, key, enc) ==
    \E outcome \in Outcomes(enc) :
        /\ conn' = IF outcome = "abort"
                   THEN [d \in Conns |-> [status |-> "aborted", store |-> EmptyStore]]
                   ELSE [conn EXCEPT ![c] = [status |-> IF outcome = "hang" THEN "hung" ELSE "open",
                                             store |-> store]]
        /\ proc' = IF outcome = "abort" THEN "aborted" ELSE proc
        /\ ev' = Event(c, cmd, key, IF enc.ok THEN "bytes" ELSE "never", enc.s)
        /\ UNCHANGED <<rdb, wall, mono, config, codec, bench>>

\* String::from_utf8(buffer.to_vec()).unwrap() on bytes that are not UTF-8:
\* the worker thread panics and its store is dropped
Utf8Error(c, buf) ==
    /\ Serving(c)
    /\ ~from_utf8(Requests[buf])
    /\ conn' = [conn EXCEPT ![c] = [status |-> "panicked", store |-> EmptyStore]]
    /\ ev' = Event(c, "Utf8Error", <<>>, "none", <<>>)
    /\ UNCHANGED <<rdb, proc, wall, mono, config, codec, bench>>

\* the read does not decode: continue
DecodeFail(c, buf) ==
    /\ Serving(c)
    /\ from_utf8(Requests[buf])
    /\ ~Decode[buf].ok
    /\ ev' = Event(c, "DecodeFail", <<>>, "none", <<>>)
    /\ UNCHANGED <<rdb, proc, conn, wall, mono, config, codec, bench>>

\* val.try_into().unwrap() on a value that is no command, or the expect() on
\* the PX argument: the worker thread panics and its store is dropped
Unclassified(c, buf) ==
    /\ Serving(c)
    /\ from_utf8(Requests[buf])
    /\ Decode[buf].ok
    /\ Message[buf].m \in {"Err", "Panic"}
    /\ conn' = [conn EXCEPT ![c] = [status |-> "panicked", store |-> EmptyStore]]
    /\ ev' = Event(c, "Unclassified", <<>>, "none", <<>>)
    /\ UNCHANGED <<rdb, proc, wall, mono, config, codec, bench>>

Decoded(c, buf, m) ==
    /\ Serving(c)
    /\ from_utf8(Requests[buf])
    /\ Decode[buf].ok
    /\ Message[buf].m = m

Ping(c, buf) ==
    /\ Decoded(c, buf, "Ping")
    /\ Respond(c, conn[c].store, "Ping", <<>>,
               ValueToString(VString(<<"P", "O", "N", "G">>), StackDepth))

Echo(c, buf) ==
    /\ Decoded(c, buf, "Echo")
    /\ Respond(c, conn[c].store, "Echo", <<>>,
               Done(BulkToString(Message[buf].val)))

Set(c, buf) ==
    /\ Decoded(c, buf, "Set")
    /\ LET msg == Message[buf]
           exp == IF msg.expiry.some
                  THEN ExpPeriod(from_millis(msg.expiry.n), mono)
                  ELSE ExpEmpty
       IN  Respond(c, Insert(conn[c].store, msg.key, DurableValue(msg.val, exp)),
                   "Set", msg.key, ValueReply(VString(<<"O", "K">>)))

Get(c, buf) ==
    /\ Decoded(c, buf, "Get")
    /\ LET key == Message[buf].key
           val == GetOr(conn[c].store, key)
       IN  IF elapsed(val.expiration, wall, mono)
           THEN Respond(c, Remove(conn[c].store, key), "Get", key, ValueReply(VBulkNull))
           ELSE Respond(c, conn[c].store, "Get", key, DurableReply(val))

ConfigGet(c, buf) ==
    /\ Decoded(c, buf, "ConfigGet")
    /\ LET key == Message[buf].key
       IN  CASE key = <<"d", "i", "r">> ->
                    Respond(c, conn[c].store, "ConfigGet", key, ValueReply(dir_to_value(config)))
             [] key = <<"d", "b", "f", "i", "l", "e", "n", "a", "m", "e">> ->
                    Respond(c, conn[c].store, "ConfigGet", key, ValueReply(filename_to_value(config)))
             [] OTHER ->
                    /\ ev' = Event(c, "ConfigGet", key, "none", <<>>)
                    /\ UNCHANGED <<rdb, proc, conn, wall, mono, config, codec, bench>>

\* the arm of main.rs for the KEYS command, which message.rs classifies from
\* the keyword "key"
Keys(c, buf) ==
    /\ Decoded(c, buf, "Key")
    /\ \E order \in KeyOrders(conn[c].store) :
          Respond(c, conn[c].store, "Keys", <<>>,
                  ValueReply(VItems([i \in DOMAIN order |-> VBulk(order[i])])))

\* stream.read returns Err: break, the worker ends and its store is dropped
ReadError(c) ==
    /\ Serving(c)
    /\ conn' = [conn EXCEPT ![c] = [status |-> "ended", store |-> EmptyStore]]
    /\ ev' = Event(c, "ReadError", <<>>, "none", <<>>)
    /\ UNCHANGED <<rdb, proc, wall, mono, config, codec, bench>>

\* SystemTime advances
TickWall ==
    /\ wall < MaxWall
    /\ wall' = wall + 1
    /\ UNCHANGED <<rdb, proc, conn, ev, mono, config, codec, bench>>

\* Instant advances by one tick of its resolution
TickMono ==
    /\ mono < MaxMono
    /\ mono' = mono + 1
    /\ UNCHANGED <<rdb, proc, conn, ev, wall, config, codec, bench>>

Next ==
    \/ \E c \in Conns : Accept(c)
    \/ \E c \in Conns, buf \in NotUtf8 : Utf8Error(c, buf)
    \/ \E c \in Conns, buf \in Undecodable : DecodeFail(c, buf)
    \/ \E c \in Conns, buf \in Classified["Err"] \cup Classified["Panic"] : Unclassified(c, buf)
    \/ \E c \in Conns, buf \in Classified["Ping"] : Ping(c, buf)
    \/ \E c \in Conns, buf \in Classified["Echo"] : Echo(c, buf)
    \/ \E c \in Conns, buf \in Classified["Set"] : Set(c, buf)
    \/ \E c \in Conns, buf \in Classified["Get"] : Get(c, buf)
    \/ \E c \in Conns, buf \in Classified["ConfigGet"] : ConfigGet(c, buf)
    \/ \E c \in Conns, buf \in Classified["Key"] : Keys(c, buf)
    \/ \E c \in Conns : ReadError(c)
    \/ TickWall
    \/ TickMono

Spec == Init /\ [][Next]_vars

----------------------------------------------------------------------------
(* The worker loop with a peer that closes its end of the connection       *)

BufferSize == 512   \* let mut buffer = [0; 512]

Byte0x00 == "0x00"

\* the buffer a read leaves untouched when it delivers no bytes
ZeroBuffer == [i \in 1..BufferSize |-> Byte0x00]

\* what the worker makes of that buffer: from_utf8, then parser
ZeroRead == [utf8 |-> from_utf8(ZeroBuffer), dec |-> parser(ZeroBuffer)]

\* the peer shuts its end down in an orderly way; the worker still runs
PeerClose(c) ==
    /\ Serving(c)
    /\ conn' = [conn EXCEPT ![c].status = "closed"]
    /\ ev' = Event(c, "PeerClose", <<>>, "none", <<>>)
    /\ UNCHANGED <<rdb, proc, wall, mono, config, codec, bench>>

\* stream.read on a connection the peer has closed returns Ok(0): the arm
\* Ok(_) runs on the zeroed buffer, which is UTF-8 and does not decode, so
\* the loop continues with the next read
ReadZero(c) ==
    /\ proc = "running"
    /\ conn[c].status = "closed"
    /\ ZeroRead.utf8
    /\ ~ZeroRead.dec.ok
    /\ ev' = Event(c, "ReadZero", <<>>, "none", <<>>)
    /\ UNCHANGED <<rdb, proc, conn, wall, mono, config, codec, bench>>

LoopInit ==
    /\ config = [dir |-> None, filename |-> None]
    /\ rdb = EmptyStore
    /\ proc = "running"
    /\ conn = [c \in Conns |-> [status |-> "none", store |-> EmptyStore]]
    /\ ev = NoEvent
    /\ wall = 0
    /\ mono = 0
    /\ codec = CodecIdle
    /\ bench = BenchIdle

LoopNext ==
    \/ Next
    \/ \E c \in Conns : PeerClose(c)
    \/ \E c \in Conns : ReadZero(c)

\* a worker thread that can take a step of its loop eventually takes it
LoopSpec ==
    /\ LoopInit
    /\ [][LoopNext]_vars
    /\ \A c \in Conns : WF_vars(ReadZero(c))

----------------------------------------------------------------------------
(* The codec on its own: a value is encoded and the text decoded again, or *)
(* a buffer is decoded and the value encoded again.                        *)

Texts == {<<"a">>, <<"O", "K">>}

Leaves ==
    {VString(t) : t \in Texts} \cup {VBulk(t) : t \in Texts}
    \cup {VBulkEmpty, VBulkNull, VArrEmpty, VArrNull}
    \cup {VError(t, <<>>) : t \in Texts} \cup {VError(<<"E">>, <<"n", "o", " ", "k", "e", "y">>)}
    \cup {VInt(n) : n \in {0, -7, 12}}

Flat == {VItems(<<x>>) : x \in Leaves} \cup {VItems(<<x, y>>) : x, y \in Leaves}

Nested ==
    {VItems(<<VItems(<<x>>), y>>) : x, y \in {VInt(12), VBulk(<<"a">>), VArrEmpty}}
    \cup {VItems(<<VItems(<<VItems(<<VString(<<"a">>)>>)>>), VArrNull>>)}

\* the well-formed wire values the codec is tried on
Values == Leaves \cup Flat \cup Nested

RECURSIVE Canonical(_)
RECURSIVE CanonicalAll(_)

CanonicalAll(items) ==
    IF Len(items) = 0 THEN <<>> ELSE Canonical(items[1]) \o CanonicalAll(Drop(items, 1))

\* the canonical byte form of a value, as the protocol writes it
Canonical(v) ==
    CASE v.t = "String" -> <<"+">> \o v.s \o CRLF
      [] v.t = "BulkString" /\ v.b = "String" -> <<"$">> \o IntToDec(Len(v.s)) \o CRLF \o v.s \o CRLF
      [] v.t = "BulkString" /\ v.b = "Empty" -> <<"$", "0">> \o CRLF \o CRLF
      [] v.t = "BulkString" /\ v.b = "Null" -> <<"$", "-", "1">> \o CRLF
      [] v.t = "Error" ->
            <<"-">> \o v.title \o (IF v.message = <<>> THEN <<>> ELSE <<" ">> \o v.message) \o CRLF
      [] v.t = "Int" -> <<":">> \o IntToDec(v.n) \o CRLF
      [] v.t = "Array" /\ v.a = "Items" ->
            <<"*">> \o IntToDec(Len(v.items)) \o CRLF \o CanonicalAll(v.items)
      [] v.t = "Array" /\ v.a = "Empty" -> <<"*", "0">> \o CRLF
      [] v.t = "Array" /\ v.a = "Null" -> <<"*", "-", "1">> \o CRLF

Hello == <<"h", "e", "l", "l", "o">>

\* frames whose body or element count does not match the header, and frames
\* followed by more input
OddFrames ==
    { <<"$", "5">> \o CRLF \o Hello \o CRLF,
      <<"$", "5">> \o CRLF \o Hello \o CRLF \o <<"+", "a">> \o CRLF,
      <<"$", "5">> \o CRLF \o <<"h", "i">> \o CRLF,
      <<"$", "2">> \o CRLF \o Hello \o CRLF,
      <<"$", "3">> \o CRLF,
      <<"$", "3">> \o CRLF \o <<"a">> \o CRLF \o CRLF,
      <<"$", "5">> \o CRLF \o Hello,
      <<"$", "x">> \o CRLF \o Hello \o CRLF,
      <<"*", "2">> \o CRLF \o <<":", "1">> \o CRLF \o <<":", "2">> \o CRLF \o <<":", "3">> \o CRLF,
      <<"*", "2">> \o CRLF \o <<":", "1">> \o CRLF,
      <<"*", "3">> \o CRLF \o <<":", "1">> \o CRLF \o <<":", "2">> \o CRLF \o <<"?">>,
      <<"*", "1">> \o CRLF,
      <<"*", "0">> \o CRLF \o <<":", "1">> \o CRLF,
      <<"*", "-", "1">> \o CRLF \o <<":", "1">> \o CRLF,
      <<"*", "2">> \o CRLF \o <<"*", "1">> \o CRLF \o <<":", "1">> \o CRLF \o <<"+", "a">> \o CRLF \o <<"x">>,
      <<":", "+", "1", "2">> \o CRLF,
      <<"+", "O", "K">> }

CanonicalForms == {Canonical(v) : v \in Values}

\* the buffers the decoder is tried on
Buffers == CanonicalForms \cup OddFrames

CodecState(pc, v, b, out, dec) == [pc |-> pc, v |-> v, b |-> b, out |-> out, dec |-> dec]

CodecInit ==
    /\ config = [dir |-> None, filename |-> None]
    /\ rdb = EmptyStore
    /\ proc = "running"
    /\ conn = [c \in Conns |-> [status |-> "none", store |-> EmptyStore]]
    /\ ev = NoEvent
    /\ wall = 0
    /\ mono = 0
    /\ codec \in {CodecState("value", v, <<>>, Done(<<>>), PErr) : v \in Values}
                 \cup {CodecState("bytes", VBulkNull, b, Done(<<>>), PErr) : b \in Buffers}
    /\ bench = BenchIdle

\* v.to_string()
EncodeValue ==
    /\ codec.pc = "value"
    /\ LET out == ValueToString(codec.v, StackDepth)
       IN  codec' = [codec EXCEPT !.pc = IF out.ok THEN "encoded" ELSE "overflow", !.out = out]
    /\ UNCHANGED <<rdb, proc, conn, ev, wall, mono, config, bench>>

\* parser(v.to_string())
DecodeEncoded ==
    /\ codec.pc = "encoded"
    /\ codec' = [codec EXCEPT !.pc = "roundtrip", !.dec = parser(codec.out.s)]
    /\ UNCHANGED <<rdb, proc, conn, ev, wall, mono, config, bench>>

\* parser(b)
DecodeBuffer ==
    /\ codec.pc = "bytes"
    /\ LET dec == parser(codec.b)
       IN  codec' = [codec EXCEPT !.pc = IF dec.ok THEN "decoded" ELSE "rejected", !.dec = dec]
    /\ UNCHANGED <<rdb, proc, conn, ev, wall, mono, config, bench>>

\* parser(b).to_string()
EncodeDecoded ==
    /\ codec.pc = "decoded"
    /\ LET out == ValueToString(codec.dec.val, StackDepth)
       IN  codec' = [codec EXCEPT !.pc = IF out.ok THEN "reencoded" ELSE "overflow", !.out = out]
    /\ UNCHANGED <<rdb, proc, conn, ev, wall, mono, config, bench>>

CodecNext ==
    \/ EncodeValue
    \/ DecodeEncoded
    \/ DecodeBuffer
    \/ EncodeDecoded

CodecSpec == CodecInit /\ [][CodecNext]_vars

----------------------------------------------------------------------------
(* The command model on its own: a decoded value is classified, and a      *)
(* CONFIG GET of a known key is rendered from the configuration.           *)

Foo == <<"f", "o", "o">>
Bar == <<"b", "a", "r">>
Star == <<"*">>
Hundred == <<"1", "0", "0">>
WDir == <<"d", "i", "r">>
WDbfilename == <<"d", "b", "f", "i", "l", "e", "n", "a", "m", "e">>
WConfig == <<"C", "O", "N", "F", "I", "G">>

\* the command words, in several spellings
Heads ==
    { <<"P", "I", "N", "G">>, <<"p", "i", "n", "g">>, <<"P", "i", "N", "g">>,
      <<"E", "C", "H", "O">>, <<"e", "c", "h", "o">>,
      <<"S", "E", "T">>, WSet, WGet, <<"g", "e", "t">>,
      WConfig, <<"c", "o", "n", "f", "i", "g">>,
      <<"K", "E", "Y", "S">>, <<"k", "e", "y", "s">>, <<"K", "E", "Y">>,
      <<"D", "E", "L">> }

\* an array of bulk strings, as a client sends a command
Bulks(parts) == VItems([i \in DOMAIN parts |-> VBulk(parts[i])])

SetForms ==
    { <<h, Foo, Bar>> : h \in {<<"S", "E", "T">>, WSet} }
    \cup { <<WSet, Foo, Bar, px, Hundred>> : px \in {<<"P", "X">>, WPx, <<"p", "x">>} }
    \cup { <<WSet, Foo, Bar, WPx, Hundred, Foo>>,
           <<WSet, Foo, Bar, WPx, <<"0">>>>,
           <<WSet, Foo, Bar, WPx>>,
           <<WSet, Foo, Bar, <<"E", "X">>, Hundred>>,
           <<WSet, Foo, Bar, Foo>>,
           <<WSet, Foo, Bar, WPx, <<"s", "o", "o", "n">>>>,
           <<WSet, Foo>> }

\* the decoded values the classifier is tried on
CommandValues ==
    { Bulks(<<h>>) : h \in Heads }
    \cup { Bulks(<<h, a>>) : h \in Heads, a \in {Foo, Star} }
    \cup { Bulks(<<h, g, k>>) : h \in {WConfig, <<"c", "o", "n", "f", "i", "g">>, WGet},
                                g \in {WGet, <<"g", "e", "t">>, WSet},
                                k \in {WDir, WDbfilename, Foo} }
    \cup { Bulks(parts) : parts \in SetForms }
    \cup { VItems(<<VBulk(WSet), VBulk(Foo), x>>) : x \in {VInt(12), VString(Bar), VBulkEmpty, VArrNull} }
    \cup { VItems(<<VString(<<"P", "I", "N", "G">>)>>),
           VItems(<<VBulk(WGet), VInt(12)>>),
           VItems(<<VBulk(WGet), VBulkEmpty>>),
           VItems(<<VBulkNull>>),
           VItems(<<>>),
           VString(<<"P", "I", "N", "G">>), VBulk(<<"P", "I", "N", "G">>), VBulkNull,
           VInt(12), VError(<<"E">>, <<>>), VArrEmpty, VArrNull }

\* every combination of --dir and --dbfilename being given or not
AllConfigs ==
    { [dir |-> d, filename |-> f] :
        d \in {None, Some(<<"/", "d">>)}, f \in {None, Some(<<"f">>)} }

CommandInit ==
    /\ config \in AllConfigs
    /\ rdb = EmptyStore
    /\ proc = "running"
    /\ conn = [c \in Conns |-> [status |-> "none", store |-> EmptyStore]]
    /\ ev = NoEvent
    /\ wall = 0
    /\ mono = 0
    /\ codec = CodecIdle
    /\ bench \in {[pc |-> "value", v |-> v] : v \in CommandValues}

\* val.try_into()
ClassifyValue ==
    /\ bench.pc = "value"
    /\ bench' = [pc |-> "classified", v |-> bench.v, msg |-> Classify(bench.v)]
    /\ UNCHANGED <<rdb, proc, conn, ev, wall, mono, config, codec>>

\* the ConfigGet arm of handle_requests, up to the value it replies
ConfigValue ==
    /\ bench.pc = "classified"
    /\ bench.msg.m = "ConfigGet"
    /\ bench.msg.key \in {WDir, WDbfilename}
    /\ bench' = [pc |-> "config", v |-> bench.v, msg |-> bench.msg,
                 val |-> IF bench.msg.key = WDir THEN dir_to_value(config)
                         ELSE filename_to_value(config)]
    /\ UNCHANGED <<rdb, proc, conn, ev, wall, mono, config, codec>>

\* .reply(&mut stream) on the value of the ConfigGet arm
ConfigReply ==
    /\ bench.pc = "config"
    /\ bench' = [pc |-> "replied", v |-> bench.v, msg |-> bench.msg, val |-> bench.val,
                 out |-> ValueReply(bench.val)]
    /\ UNCHANGED <<rdb, proc, conn, ev, wall, mono, config, codec>>

CommandNext ==
    \/ ClassifyValue
    \/ ConfigValue
    \/ ConfigReply

CommandSpec == CommandInit /\ [][CommandNext]_vars

----------------------------------------------------------------------------
(* Snapshot decoder: parser/rdb.rs.  The input is a sequence of bytes, each *)
(* a number 0..255.  A result is ok with the value and the remaining input, *)
(* or not ok.                                                               *)

ROk(rest, val) == [ok |-> TRUE, rest |-> rest, val |-> val]
RErr == [ok |-> FALSE, rest |-> <<>>, val |-> <<>>]

RECURSIVE Pow2(_)
Pow2(n) == IF n = 0 THEN 1 ELSE 2 * Pow2(n - 1)

\* x >> n and x << n
Shr(x, n) == x \div Pow2(n)
Shl(x, n) == x * Pow2(n)

RECURSIVE BitAnd(_, _)
BitAnd(a, b) ==
    IF a = 0 \/ b = 0 THEN 0
    ELSE (a % 2) * (b % 2) + 2 * BitAnd(a \div 2, b \div 2)

RECURSIVE BitOr(_, _)
BitOr(a, b) ==
    IF a = 0 THEN b
    ELSE IF b = 0 THEN a
    ELSE (IF a % 2 = 1 \/ b % 2 = 1 THEN 1 ELSE 0) + 2 * BitOr(a \div 2, b \div 2)

\* a u32, held as its two 16-bit halves: hi * 65536 + lo
U32(hi, lo) == [hi |-> hi, lo |-> lo]

\* a two's complement number of the given width
Signed(n, bits) == IF n >= Pow2(bits - 1) THEN n - Pow2(bits) ELSE n

\* the printable ASCII characters, from 0x20 to 0x7E (the quote, the
\* backslash and the backtick by their codes)
Ascii ==
    <<
      " ", "!", "0x22", "#", "$", "%", "&", "'", "(", ")", "*", "+",
      ",", "-", ".", "/", "0", "1", "2", "3", "4", "5", "6", "7",
      "8", "9", ":", ";", "<", "=", ">", "?", "@", "A", "B", "C",
      "D", "E", "F", "G", "H", "I", "J", "K", "L", "M", "N", "O",
      "P", "Q", "R", "S", "T", "U", "V", "W", "X", "Y", "Z", "[",
      "0x5C", "]", "^", "_", "0x60", "a", "b", "c", "d", "e", "f", "g",
      "h", "i", "j", "k", "l", "m", "n", "o", "p", "q", "r", "s",
      "t", "u", "v", "w", "x", "y", "z", "{", "|", "}", "~" >>

be_u8(input) ==
    IF Len(input) < 1 THEN RErr ELSE ROk(Drop(input, 1), input[1])

be_u32(input) ==
    IF Len(input) < 4 THEN RErr
    ELSE ROk(Drop(input, 4),
             U32(input[1] * 256 + input[2], input[3] * 256 + input[4]))

RECURSIVE BigEndian(_)
BigEndian(bytes) ==
    IF Len(bytes) = 0 THEN 0
    ELSE BigEndian(Take(bytes, Len(bytes) - 1)) * 256 + bytes[Len(bytes)]

be_u64(input) ==
    IF Len(input) < 8 THEN RErr ELSE ROk(Drop(input, 8), BigEndian(Take(input, 8)))

be_i8(input) ==
    IF Len(input) < 1 THEN RErr ELSE ROk(Drop(input, 1), Signed(input[1], 8))

be_i16(input) ==
    IF Len(input) < 2 THEN RErr
    ELSE ROk(Drop(input, 2), Signed(input[1] * 256 + input[2], 16))

be_i32(input) ==
    IF Len(input) < 4 THEN RErr
    ELSE ROk(Drop(input, 4),
             Signed(input[1], 8) * 16777216 + input[2] * 65536 + input[3] * 256 + input[4])

\* std::str::from_utf8(bytes).is_ok(): one-byte characters and well-formed
\* multi-byte sequences
RECURSIVE str_from_utf8(_)
str_from_utf8(bytes) ==
    IF Len(bytes) = 0 THEN TRUE
    ELSE LET b == bytes[1]
             more == IF b < 128 THEN 0
                     ELSE IF b \in 194..223 THEN 1
                     ELSE IF b \in 224..239 THEN 2
                     ELSE IF b \in 240..244 THEN 3
                     ELSE -1
         IN  /\ more >= 0
             /\ Len(bytes) >= 1 + more
             /\ \A i \in 2..(1 + more) : bytes[i] \in 128..191
             /\ str_from_utf8(Drop(bytes, 1 + more))

\* the text of bytes that are UTF-8; the snapshots of the model hold text in
\* printable ASCII only
ToText(bytes) ==
    [i \in 1..Len(bytes) |-> IF bytes[i] \in 32..126 THEN Ascii[bytes[i] - 31] ELSE "?"]

LNum(n) == [l |-> "Num", n |-> n, flag |-> 0]
LSpecial(flag) == [l |-> "Special", n |-> U32(0, 0), flag |-> flag]

DBInt(n) == [d |-> "Int", n |-> n, s |-> <<>>]
DBStr(s) == [d |-> "Str", n |-> 0, s |-> s]

\* impl ToString for DBString
DBToString(d) == IF d.d = "Int" THEN IntToDec(d.n) ELSE d.s

\* the one element of a set of one: {e(x) : x \in {v}} is e of the value v
The(S) == CHOOSE x \in S : TRUE

\* len with the first byte left unmasked in the two-byte form
len_unmasked(input) ==
    The({ IF ~first.ok THEN RErr
          ELSE LET l == first.val
                   next == first.rest
                   ex == be_u8(next)
                   n == be_u32(next)
               IN  CASE Shr(l, 6) = 0 -> ROk(next, LNum(U32(0, BitAnd(l, 63))))
                     [] Shr(l, 6) = 1 ->
                          IF ex.ok
                          THEN ROk(ex.rest, LNum(U32(0, BitOr(Shl(l, 8), ex.val))))
                          ELSE RErr
                     [] Shr(l, 6) = 2 ->
                          IF n.ok THEN ROk(n.rest, LNum(n.val)) ELSE RErr
                     [] Shr(l, 6) = 3 -> ROk(next, LSpecial(BitAnd(l, 63)))
          : first \in {be_u8(input)} })

len(input) ==
    The({ IF ~first.ok THEN RErr
          ELSE LET l == first.val
                   next == first.rest
                   ex == be_u8(next)
                   n == be_u32(next)
               IN  CASE Shr(l, 6) = 0 -> ROk(next, LNum(U32(0, BitAnd(l, 63))))
                     [] Shr(l, 6) = 1 ->
                          IF ex.ok
                          THEN ROk(ex.rest, LNum(U32(0, BitOr(Shl(BitAnd(l, 63), 8), ex.val))))
                          ELSE RErr
                     [] Shr(l, 6) = 2 ->
                          IF n.ok THEN ROk(n.rest, LNum(n.val)) ELSE RErr
                     [] Shr(l, 6) = 3 -> ROk(next, LSpecial(BitAnd(l, 63)))
          : first \in {be_u8(input)} })

\* LenEncoded::Num(num): take(num), then from_utf8
string_num(next, num) ==
    IF num.hi > 0 \/ num.lo > Len(next) THEN RErr
    ELSE IF str_from_utf8(Take(next, num.lo))
         THEN ROk(Drop(next, num.lo), DBStr(ToText(Take(next, num.lo))))
         ELSE RErr

\* LenEncoded::Special(flag): the integer the flag selects
string_special(next, flag) ==
    The({ IF n.ok THEN ROk(n.rest, DBInt(n.val)) ELSE RErr
          : n \in { CASE flag = 0 -> be_i8(next)
                      [] flag = 1 -> be_i16(next)
                      [] flag = 2 -> be_i32(next)
                      [] OTHER -> RErr } })

string(input) ==
    The({ IF ~head.ok THEN RErr
          ELSE IF head.val.l = "Num" THEN string_num(head.rest, head.val.n)
          ELSE string_special(head.rest, head.val.flag)
          : head \in {len(input)} })

KVPair(key, value, expiration) == [key |-> key, value |-> value, expiration |-> expiration]

\* u32 -> u64 (.into()); the snapshots of the model keep the number below 2^31
U32ToU64(n) == n.hi * 65536 + n.lo

\* opt(alt((tag([0xFD]), tag([0xFC])))), then the expiration the marker
\* announces: the number as it stands, in seconds after 0xFD and in
\* milliseconds after 0xFC
kv_expiration(input) ==
    LET variant == IF Len(input) >= 1 /\ input[1] \in {253, 252} THEN input[1] ELSE 0
        secs == be_u32(Drop(input, 1))
        millis == be_u64(Drop(input, 1))
    IN  CASE variant = 253 ->
                IF secs.ok THEN ROk(secs.rest, [some |-> TRUE, n |-> U32ToU64(secs.val)])
                ELSE RErr
          [] variant = 252 ->
                IF millis.ok THEN ROk(millis.rest, [some |-> TRUE, n |-> millis.val])
                ELSE RErr
          [] OTHER -> ROk(input, NoExpiry)

\* the value after the key: only value type 0, a string, is supported
kv_value(value_type, key, expiration) ==
    The({ IF value_type # 0 \/ ~value.ok THEN RErr
          ELSE ROk(value.rest, KVPair(key.val, value.val, expiration))
          : value \in {string(key.rest)} })

kv_pair(input) ==
    The({ IF ~expiration.ok THEN RErr
          ELSE The({ IF ~value_type.ok THEN RErr
                     ELSE The({ IF ~key.ok THEN RErr
                                ELSE kv_value(value_type.val, key, expiration.val)
                                : key \in {string(value_type.rest)} })
                     : value_type \in {be_u8(expiration.rest)} })
          : expiration \in {kv_expiration(input)} })

\* map_len(len): a length that is a number, not a special selector
use_len(input) ==
    The({ IF l.ok /\ l.val.l = "Num" THEN ROk(l.rest, l.val.n) ELSE RErr
          : l \in {len(input)} })

\* map_len(preceded(tag(&[0xFE]), len))
db_number(input) ==
    IF Len(input) >= 1 /\ input[1] = 254 THEN use_len(Drop(input, 1)) ELSE RErr

NoResize == [some |-> FALSE, hash_table_size |-> U32(0, 0), expire_hash_table_size |-> U32(0, 0)]

\* opt(preceded(tag([0xFB]), pair(use_len, use_len)))
resize_db(input) ==
    IF ~(Len(input) >= 1 /\ input[1] = 251) THEN ROk(input, NoResize)
    ELSE The({ IF ~l1.ok THEN ROk(input, NoResize)
               ELSE The({ IF ~l2.ok THEN ROk(input, NoResize)
                          ELSE ROk(l2.rest, [some |-> TRUE, hash_table_size |-> l1.val,
                                             expire_hash_table_size |-> l2.val])
                          : l2 \in {use_len(l1.rest)} })
               : l1 \in {use_len(Drop(input, 1))} })

\* preceded(tag([0xFA]), pair(string, string))
aux_field(input) ==
    IF ~(Len(input) >= 1 /\ input[1] = 250) THEN RErr
    ELSE The({ IF ~key.ok THEN RErr
               ELSE The({ IF ~value.ok THEN RErr
                          ELSE ROk(value.rest, [key |-> key.val, value |-> value.val])
                          : value \in {string(key.rest)} })
               : key \in {string(Drop(input, 1))} })

\* many0(..): fields as long as one decodes; acc holds those decoded so far
RECURSIVE auxilliary(_, _)
auxilliary(input, acc) ==
    The({ IF ~r.ok THEN ROk(input, acc)
          ELSE auxilliary(r.rest, Append(acc, r.val))
          : r \in {aux_field(input)} })

\* many_till(kv_pair, alt((tag([0xFE]), tag([0xFF])))): records up to the first
\* 0xFE or 0xFF that stands where a record would start
RECURSIVE many_till_kv_pair(_, _)
many_till_kv_pair(input, acc) ==
    IF Len(input) >= 1 /\ input[1] \in {254, 255} THEN ROk(Drop(input, 1), acc)
    ELSE The({ IF ~r.ok \/ Len(r.rest) = Len(input) THEN RErr
               ELSE many_till_kv_pair(r.rest, Append(acc, r.val))
               : r \in {kv_pair(input)} })

\* input.iter().position(|&x| x == 0xFE_u8 || x == 0xFF_u8), counted from 1;
\* 0 when there is none
Position(input) ==
    LET hits == {i \in 1..Len(input) : input[i] \in {254, 255}}
    IN  IF hits = {} THEN 0 ELSE CHOOSE i \in hits : \A j \in hits : i <= j

DB(number, resize, key_value_pairs) ==
    [number |-> number, resize_db |-> resize, key_value_pairs |-> key_value_pairs]

\* the records of a section and the input left: not where many_till stopped,
\* but the input after the resize hint from its first 0xFE or 0xFF byte on
db_records(number, resize) ==
    The({ IF ~pairs.ok THEN RErr
          ELSE ROk(Drop(resize.rest, Position(resize.rest) - 1),
                   DB(number, resize.val, pairs.val))
          : pairs \in {many_till_kv_pair(resize.rest, <<>>)} })

db(input) ==
    The({ IF ~number.ok THEN RErr
          ELSE The({ db_records(number.val, resize) : resize \in {resize_db(number.rest)} })
          : number \in {db_number(input)} })

MAGIC == <<82, 69, 68, 73, 83>>

\* preceded(tag(MAGIC), map_res(map_res(take(4u8), from_utf8), str::parse::<u32>))
header(input) ==
    LET digits == SubSeq(input, 6, 9)
        version == ParseUsize(ToText(digits))
    IN  IF StartsWith(input, MAGIC) /\ Len(input) >= 9 /\ str_from_utf8(digits) /\ version.ok
        THEN ROk(Drop(input, 9), version.n)
        ELSE RErr

\* many_till(db, tag([0xff]))
RECURSIVE many_till_db(_, _)
many_till_db(input, acc) ==
    IF Len(input) >= 1 /\ input[1] = 255 THEN ROk(Drop(input, 1), acc)
    ELSE The({ IF ~r.ok \/ Len(r.rest) = Len(input) THEN RErr
               ELSE many_till_db(r.rest, Append(acc, r.val))
               : r \in {db(input)} })

RDB(version, auxilliary_field, databases) ==
    [version |-> version, auxilliary_field |-> auxilliary_field, databases |-> databases]

parse_rdb(input) ==
    The({ IF ~version.ok THEN RErr
          ELSE The({ The({ IF ~dbs.ok THEN RErr
                           ELSE ROk(dbs.rest, RDB(version.val, aux.val, dbs.val))
                           : dbs \in {many_till_db(aux.rest, <<>>)} })
                     : aux \in {auxilliary(version.rest, <<>>)} })
          : version \in {header(input)} })

----------------------------------------------------------------------------
(* The snapshot decoder on its own: a length and a string are decoded from *)
(* bytes, and a database section from the bytes of a section and what      *)
(* follows it.                                                             *)

\* "Positive 8 bit integer", with its length in front
PositiveEight ==
    <<22, 80, 111, 115, 105, 116, 105, 118, 101, 32, 56, 32, 98, 105, 116, 32,
      105, 110, 116, 101, 103, 101, 114>>

\* what may follow the first byte of a length or a string
Tails ==
    { <<>>, <<125>>, <<133>>, <<105>>, <<219, 140>>, <<37, 211, 237, 82>>,
      <<171, 171, 0, 0>>, <<219, 44, 18, 245>>, <<255>>,
      <<255, 255, 255, 255>>, <<255, 255, 255, 255, 118>>,
      [i \in 1..64 |-> 80] }

LenInputs == {<<b>> \o t : b \in 0..255, t \in Tails} \cup {<<>>, PositiveEight}

\* key-value records: text and integer keys and values, with and without an
\* expiration, some with the bytes 0xFE and 0xFF inside
RecordBytes ==
    { <<0, 1, 97, 1, 118>>,
      <<0, 192, 125>> \o PositiveEight,
      <<0, 192, 255, 1, 118>>,
      <<0, 1, 97, 192, 254>>,
      <<0, 193, 1, 255, 1, 118>>,
      <<252, 0, 0, 0, 0, 0, 0, 0, 255, 0, 1, 97, 1, 118>>,
      <<252, 0, 0, 0, 0, 0, 0, 0, 1, 0, 1, 98, 1, 118>>,
      <<253, 0, 0, 0, 1, 0, 1, 97, 1, 118>> }

\* the records of a section: none, one or two
SectionBodies ==
    {<<>>} \cup RecordBytes \cup {r1 \o r2 : r1, r2 \in RecordBytes}

\* a section: the database number, an optional resize hint, the records
Sections ==
    {<<254, 0>> \o resize \o body :
        resize \in {<<>>, <<251, 1, 0>>}, body \in SectionBodies}

\* what follows a section: the end of the file with its checksum, or the
\* next section
Followings ==
    { <<255>>,
      <<255, 125, 246, 75, 211, 97, 140, 85, 10>>,
      <<254, 1, 0, 1, 97, 1, 118, 255>> }

RdbInit ==
    /\ config = [dir |-> None, filename |-> None]
    /\ rdb = EmptyStore
    /\ proc = "running"
    /\ conn = [c \in Conns |-> [status |-> "none", store |-> EmptyStore]]
    /\ ev = NoEvent
    /\ wall = 0
    /\ mono = 0
    /\ codec = CodecIdle
    /\ bench \in {[pc |-> "bytes", in |-> b] : b \in LenInputs}
                 \cup {[pc |-> "section", in |-> sec \o f, section |-> sec, following |-> f] :
                          sec \in Sections, f \in Followings}

\* len(input)
DecodeLen ==
    /\ bench.pc = "bytes"
    /\ bench' = [pc |-> "len", in |-> bench.in, out |-> len(bench.in)]
    /\ UNCHANGED <<rdb, proc, conn, ev, wall, mono, config, codec>>

\* string(input)
DecodeString ==
    /\ bench.pc = "bytes"
    /\ bench' = [pc |-> "string", in |-> bench.in, out |-> string(bench.in)]
    /\ UNCHANGED <<rdb, proc, conn, ev, wall, mono, config, codec>>

\* db(input)
DecodeDb ==
    /\ bench.pc = "section"
    /\ bench' = [pc |-> "db", in |-> bench.in, section |-> bench.section,
                 following |-> bench.following, out |-> db(bench.in)]
    /\ UNCHANGED <<rdb, proc, conn, ev, wall, mono, config, codec>>

RdbNext ==
    \/ DecodeLen
    \/ DecodeString
    \/ DecodeDb

RdbSpec == RdbInit /\ [][RdbNext]_vars

----------------------------------------------------------------------------
(* Startup: main.rs, from the configuration to the accept loop, on a        *)
(* snapshot file that is absent or holds given bytes.                      *)

\* REDIS0003
FileHead == MAGIC \o <<48, 48, 48, 51>>

\* the auxilliary field redis-ver 7.2.0
FileAux == <<250, 9, 114, 101, 100, 105, 115, 45, 118, 101, 114, 5, 55, 46, 50, 46, 48>>

\* the end of a file: 0xFF and a checksum of 8 bytes
FileEnd == <<255, 1, 2, 3, 4, 5, 6, 7, 8>>

NoDeadline == [some |-> FALSE, n |-> 0]

\* a record as the format defines it: the text of its key and of its value,
\* and its expiration timestamp in milliseconds of the wall clock, if any
Record(key, val, deadline) == [key |-> key, val |-> val, deadline |-> deadline]

TextEight == ToText(Drop(PositiveEight, 1))

\* well-formed snapshot files, each with the records it holds
ValidSnapshots ==
    { [bytes |-> FileHead \o FileEnd, records |-> <<>>],
      [bytes |-> FileHead \o FileAux \o <<254, 0, 251, 1, 0>> \o <<0, 1, 97, 1, 118>> \o FileEnd,
       records |-> <<Record(KeyA, <<"v">>, NoDeadline)>>],
      [bytes |-> FileHead \o <<254, 0>> \o <<0, 192, 125>> \o PositiveEight \o FileEnd,
       records |-> <<Record(Key125, TextEight, NoDeadline)>>],
      [bytes |-> FileHead \o <<254, 0>> \o <<0, 1, 97, 1, 118>>
                   \o <<254, 1>> \o <<252, 0, 0, 0, 0, 0, 0, 0, 1, 0, 192, 125, 1, 118>> \o FileEnd,
       records |-> <<Record(KeyA, <<"v">>, NoDeadline),
                     Record(Key125, <<"v">>, [some |-> TRUE, n |-> 1])>>],
      [bytes |-> FileHead \o <<254, 0>> \o <<253, 0, 0, 0, 1, 0, 192, 125, 1, 118>> \o FileEnd,
       records |-> <<Record(Key125, <<"v">>, [some |-> TRUE, n |-> 1000])>>],
      [bytes |-> FileHead \o <<254, 0>> \o <<0, 1, 97, 192, 254>> \o FileEnd,
       records |-> <<Record(KeyA, <<"-", "2">>, NoDeadline)>>] }

\* files that are no snapshot: a bad magic, a bad version, a length cut
\* short, a special encoding that is not supported, a compressed string, a
\* value type that is not supported, a key that is not UTF-8
BrokenSnapshots ==
    { <<82, 69, 68, 73, 88, 48, 48, 48, 51>> \o FileEnd,
      MAGIC \o <<48, 48, 120, 51>> \o FileEnd,
      FileHead \o <<254, 0, 0, 64>>,
      FileHead \o <<254, 0>> \o <<0, 196, 1, 1, 118>> \o FileEnd,
      FileHead \o <<254, 0>> \o <<0, 195, 1, 1, 97, 1, 118>> \o FileEnd,
      FileHead \o <<254, 0>> \o <<1, 1, 97, 1, 118>> \o FileEnd,
      FileHead \o <<254, 0>> \o <<0, 1, 128, 1, 118>> \o FileEnd }

Absent == [exists |-> FALSE, bytes |-> <<>>]

Present(bytes) == [exists |-> TRUE, bytes |-> bytes]

\* what is at the path of the snapshot
Files == {Absent} \cup {Present(s.bytes) : s \in ValidSnapshots} \cup {Present(b) : b \in BrokenSnapshots}

\* rdb.entries(): the records of every database, in the order of the file
RECURSIVE entries(_)
entries(databases) ==
    IF databases = <<>> THEN <<>>
    ELSE Head(databases).key_value_pairs \o entries(Tail(databases))

\* impl From<&Value> and From<&DBString> for resp::Value
ValueFrom(value) == VString(DBToString(value))

\* what UNIX_EPOCH + exp may make of the number of a record: exp carries no
\* unit, so the number counts seconds or milliseconds, the same for every
\* record; the wall clock of the model counts milliseconds
Units == {1, 1000}

\* expiration.map(|exp| Expiration::Date(UNIX_EPOCH + exp)).unwrap_or_default()
DateOf(expiration, unit) ==
    IF expiration.some THEN ExpDate(expiration.n * unit) ELSE ExpEmpty

\* .collect::<HashMap<_, _>>(): a later pair of a key replaces an earlier one
RECURSIVE collect(_, _, _)
collect(pairs, unit, map) ==
    IF pairs = <<>> THEN map
    ELSE collect(Tail(pairs), unit,
                 Insert(map, DBToString(Head(pairs).key),
                        DurableValue(ValueFrom(Head(pairs).value),
                                     DateOf(Head(pairs).expiration, unit))))

\* the dataset main builds, or the error main returns with
load(cfg, file, unit) ==
    IF cfg.dir.some /\ cfg.filename.some /\ file.exists
    THEN The({ IF parsed.ok
               THEN [ok |-> TRUE, map |-> collect(entries(parsed.val.databases), unit, EmptyStore)]
               ELSE [ok |-> FALSE, map |-> EmptyStore]
               : parsed \in {parse_rdb(file.bytes)} })
    ELSE [ok |-> TRUE, map |-> EmptyStore]

StartInit ==
    /\ config \in AllConfigs
    /\ rdb = EmptyStore
    /\ proc = "starting"
    /\ conn = [c \in Conns |-> [status |-> "none", store |-> EmptyStore]]
    /\ ev = NoEvent
    /\ wall = 0
    /\ mono = 0
    /\ codec = CodecIdle
    /\ bench \in {[pc |-> "start", file |-> f] : f \in Files}

\* main, from the configuration to the bind: the dataset is loaded and the
\* process listens, or parse_rdb(..)? returns the error and the process ends
Load ==
    /\ proc = "starting"
    /\ bench.pc = "start"
    /\ \E unit \in Units :
         \E out \in {load(config, bench.file, unit)} :
            /\ rdb' = out.map
            /\ proc' = IF out.ok THEN "running" ELSE "exited"
            /\ bench' = [bench EXCEPT !.pc = IF out.ok THEN "listening" ELSE "exited"]
    /\ ev' = Event(0, "Load", <<>>, "none", <<>>)
    /\ UNCHANGED <<conn, wall, mono, config, codec>>

StartNext ==
    \/ Load
    \/ \E c \in Conns : Accept(c)
    \/ \E c \in Conns, buf \in Classified["Get"] : Get(c, buf)
    \/ TickWall

StartSpec == StartInit /\ [][StartNext]_vars

----------------------------------------------------------------------------
(* Vocabulary of the properties *)

NullBulk == <<"$", "-", "1">> \o CRLF

Ok == <<"+", "O", "K">> \o CRLF

\* the handler that just ran wrote exactly these bytes to its stream
Replied(bytes) == ev'.w = "bytes" /\ ev'.s = bytes

\* the worker of c handles GET k in this step
GetStep(c, k) ==
    \E buf \in Classified["Get"] : Message[buf].key = k /\ Get(c, buf)

\* the expiration predicate as the specification states it
Expired(exp) ==
    \/ exp.e = "Date" /\ wall >= exp.time
    \/ exp.e = "Period" /\ mono - exp.insert_at > exp.duration

Live(c, k) == k \in DOMAIN conn[c].store /\ ~Expired(conn[c].store[k].expiration)

Stale(c, k) == k \in DOMAIN conn[c].store /\ Expired(conn[c].store[k].expiration)

\* the worker of c evicts an entry in this step
EvictStep(c) == \E k \in {KeyA, KeyB} : Stale(c, k) /\ GetStep(c, k)

SetStep(c) == \E buf \in Classified["Set"] : Set(c, buf)

\* the store of c is the same but for key k
SameButFor(c, k) ==
    /\ DOMAIN conn'[c].store \ {k} = DOMAIN conn[c].store \ {k}
    /\ \A j \in DOMAIN conn[c].store \ {k} : conn'[c].store[j] = conn[c].store[j]

----------------------------------------------------------------------------
(* Properties *)

\* C1: a SET or an expiry eviction on one connection leaves every other open
\* connection serving from the same store, so with the same replies to GET and
\* KEYS; it leaves the shared dataset unchanged; and a connection accepted at
\* any time starts from exactly the entries of the shared dataset.
C1_Isolation ==
    [][ /\ \A c, d \in Conns :
              c # d /\ Serving(d) /\ (SetStep(c) \/ EvictStep(c)) => conn'[d] = conn[d]
        /\ rdb' = rdb
        /\ \A c \in Conns : Accept(c) => conn'[c].store = rdb ]_vars

\* C2: GET k replies the null bulk string and leaves the store unchanged when
\* k is absent; removes the entry and replies the null bulk string when the
\* expiration predicate of the entry holds; and otherwise replies the stored
\* value and leaves the store unchanged.
C2_GetContract ==
    [][ \A c \in Conns, k \in {KeyA, KeyB} :
          GetStep(c, k) =>
            IF k \notin DOMAIN conn[c].store
               THEN Replied(NullBulk) /\ conn'[c].store = conn[c].store
            ELSE IF Expired(conn[c].store[k].expiration)
               THEN Replied(NullBulk) /\ k \notin DOMAIN conn'[c].store /\ SameButFor(c, k)
            ELSE Replied(Canonical(conn[c].store[k].val)) /\ conn'[c].store = conn[c].store ]_vars

\* C3: SET k v [PX m] replaces the entry of k by v with no expiration, or with
\* the relative deadline of m ms from now; every other entry is unchanged and
\* the reply is +OK; a GET k before any deadline of the entry has passed
\* replies v.
C3_SetContract ==
    [][ \A c \in Conns :
          /\ \A buf \in DOMAIN Requests :
                Set(c, buf) =>
                  LET msg == Message[buf]
                  IN  /\ msg.key \in DOMAIN conn'[c].store
                      /\ conn'[c].store[msg.key].val = msg.val
                      /\ conn'[c].store[msg.key].expiration =
                            IF msg.expiry.some
                            THEN ExpPeriod(msg.expiry.n * TicksPerMilli, mono)
                            ELSE ExpEmpty
                      /\ SameButFor(c, msg.key)
                      /\ Replied(Ok)
          /\ \A k \in {KeyA, KeyB} :
                GetStep(c, k) /\ Live(c, k) => Replied(Canonical(conn[c].store[k].val)) ]_vars

\* C4: a GET of a key whose deadline has passed replies the null bulk string
\* and leaves the key absent; a GET never changes an entry it leaves in the
\* store; and a key absent from a serving worker's store comes back only by
\* a SET.
C4_ExpiryIsFinal ==
    [][ \A c \in Conns, k \in {KeyA, KeyB} :
          /\ GetStep(c, k) /\ Stale(c, k) =>
                Replied(NullBulk) /\ k \notin DOMAIN conn'[c].store
          /\ GetStep(c, k) /\ k \in DOMAIN conn'[c].store =>
                k \in DOMAIN conn[c].store /\ conn'[c].store[k] = conn[c].store[k]
          /\ Serving(c) /\ k \notin DOMAIN conn[c].store /\ k \in DOMAIN conn'[c].store =>
                SetStep(c) ]_vars

\* C5: the first GET of a key that was SET with PX 0 replies the null bulk
\* string and removes the entry, whatever time has passed since the SET.
C5_ZeroDuration ==
    [][ \A c \in Conns, k \in {KeyA, KeyB} :
          /\ GetStep(c, k)
          /\ k \in DOMAIN conn[c].store
          /\ conn[c].store[k].expiration.e = "Period"
          /\ conn[c].store[k].expiration.duration = 0
          => Replied(NullBulk) /\ k \notin DOMAIN conn'[c].store ]_vars

\* C6: KEYS replies the array of every key of the store, each once, in some
\* order, expired or not, and leaves the store unchanged.
C6_KeysContract ==
    [][ \A c \in Conns, buf \in DOMAIN Requests :
          Keys(c, buf) =>
            /\ \E order \in KeyOrders(conn[c].store) :
                  Replied(Canonical(VItems([i \in DOMAIN order |-> VBulk(order[i])])))
            /\ conn'[c].store = conn[c].store ]_vars

\* C7: a value that was encoded and decoded again is the value itself, with
\* nothing left over; a canonical byte form that was decoded and encoded again
\* is the byte form itself.
C7_RoundTrip ==
    /\ codec.pc = "roundtrip" =>
          codec.dec.ok /\ codec.dec.val = codec.v /\ codec.dec.rest = <<>>
    /\ codec.pc = "reencoded" /\ codec.b \in CanonicalForms => codec.out.s = codec.b

\* C8: encoding a well-formed value always returns.
C8_EncodeTerminates == codec.pc # "overflow"

\* the count declared by the array header of a buffer
DeclaredCount(b) == ParseIsize(LineAfter(b, "*").line)

\* the length declared by the bulk-string header of a buffer
DeclaredLen(b) == ParseIsize(LineAfter(b, "$").line)

\* a buffer was decoded successfully
BufferDecoded == codec.b # <<>> /\ codec.dec.ok

\* C9: a buffer with an array header of count n >= 1 decodes, if at all, to
\* the n elements that follow the header, in order, and the remainder is
\* what follows the n-th element; counts 0 and -1 decode to the empty and the
\* null array and consume the header only.
C9_ArrayCount ==
    BufferDecoded /\ codec.b[1] = "*" =>
        LET n == DeclaredCount(codec.b).n
            first_line == <<"*">> \o LineAfter(codec.b, "*").line \o CRLF
        IN  /\ n >= 1 =>
                /\ codec.dec.val.t = "Array" /\ codec.dec.val.a = "Items"
                /\ Len(codec.dec.val.items) = n
                /\ codec.b = first_line \o CanonicalAll(codec.dec.val.items) \o codec.dec.rest
            /\ n = 0 => codec.dec.val = VArrEmpty /\ codec.b = first_line \o codec.dec.rest
            /\ n = -1 => codec.dec.val = VArrNull /\ codec.b = first_line \o codec.dec.rest

\* C10: a bulk-string frame of declared length len >= 1 decodes, if at all,
\* to the text of exactly the len bytes that follow the header, and these are
\* followed by "\r\n".
C10_BulkLength ==
    BufferDecoded /\ codec.b[1] = "$" /\ DeclaredLen(codec.b).n >= 1 =>
        LET declared == DeclaredLen(codec.b).n
            first_line == <<"$">> \o LineAfter(codec.b, "$").line \o CRLF
        IN  /\ codec.dec.val.t = "BulkString" /\ codec.dec.val.b = "String"
            /\ Len(codec.dec.val.s) = declared
            /\ codec.b = first_line \o codec.dec.val.s \o CRLF \o codec.dec.rest

\* an array whose elements are all bulk strings
AllBulk(v) ==
    v.t = "Array" /\ v.a = "Items" /\ \A i \in DOMAIN v.items : IsBulk(v.items[i])

\* the i-th word of a command, keywords compared without case
Word(v, i) == to_lowercase(inner(v.items[i]))

\* the command the classification table gives for a value; the variant of
\* the KEYS command is named Key in the code
TableCommand(v) ==
    IF ~AllBulk(v) THEN Msg("Err", <<>>, v, NoExpiry)
    ELSE LET e == v.items
             n == Len(e)
         IN  CASE n = 1 /\ Word(v, 1) = <<"p", "i", "n", "g">> ->
                     Msg("Ping", <<>>, VBulkNull, NoExpiry)
               [] n = 2 /\ Word(v, 1) = <<"e", "c", "h", "o">> ->
                     Msg("Echo", <<>>, e[2], NoExpiry)
               [] n = 3 /\ Word(v, 1) = <<"s", "e", "t">> ->
                     Msg("Set", inner(e[2]), e[3], NoExpiry)
               [] n >= 5 /\ Word(v, 1) = <<"s", "e", "t">> /\ Word(v, 4) = <<"p", "x">>
                         /\ AllDigits(inner(e[5])) ->
                     Msg("Set", inner(e[2]), e[3], [some |-> TRUE, n |-> DecToNat(inner(e[5]))])
               [] n = 2 /\ Word(v, 1) = <<"g", "e", "t">> ->
                     Msg("Get", inner(e[2]), VBulkNull, NoExpiry)
               [] n = 3 /\ Word(v, 1) = <<"c", "o", "n", "f", "i", "g">>
                        /\ Word(v, 2) = <<"g", "e", "t">> ->
                     Msg("ConfigGet", inner(e[3]), VBulkNull, NoExpiry)
               [] n = 2 /\ Word(v, 1) = <<"k", "e", "y", "s">> ->
                     Msg("Key", inner(e[2]), VBulkNull, NoExpiry)
               [] OTHER -> Msg("Err", <<>>, v, NoExpiry)

\* C11: classifying a value yields exactly the command of the table, keywords
\* compared without case: PING, ECHO a, SET k v, SET k v PX m .., GET k,
\* CONFIG GET k, KEYS p; every other value yields the error carrying the
\* value.
C11_ClassifyTable ==
    bench.pc \in {"classified", "config", "replied"} => bench.msg = TableCommand(bench.v)

\* the array CONFIG GET replies for a parameter that is configured or not
ConfigArray(name, opt) ==
    IF opt.some THEN VItems(<<VBulk(name), VBulk(opt.s)>>) ELSE VArrEmpty

\* the array CONFIG GET replies for the key of the command on the bench
ConfigExpected ==
    IF bench.msg.key = WDir THEN ConfigArray(WDir, config.dir)
    ELSE ConfigArray(WDbfilename, config.filename)

\* C15: CONFIG GET dir replies ["dir", dir] when a dir is configured and the
\* empty array otherwise; CONFIG GET dbfilename replies ["dbfilename",
\* dbfilename] when a dbfilename is configured and the empty array otherwise,
\* whatever the other parameter is.
C15_ConfigGet ==
    /\ bench.pc \in {"config", "replied"} => bench.val = ConfigExpected
    /\ bench.pc = "replied" => bench.out.ok /\ bench.out.s = Canonical(ConfigExpected)

\* the buffers that are no frame of a wire value: bytes that are not UTF-8,
\* text the decoder rejects, and text that does not start with the byte form
\* of the value decoded from it (a frame cut short)
Malformed ==
    {buf \in DOMAIN Requests :
        ~(/\ from_utf8(Requests[buf])
          /\ Decode[buf].ok
          /\ StartsWith(Requests[buf], Canonical(Decode[buf].val)))}

\* the buffers that hold a well-formed value which is no command, by the
\* classification table and by the classifier
NoCommand ==
    {buf \in DOMAIN Requests \ Malformed :
        /\ Message[buf].m \in {"Err", "Panic"}
        /\ TableCommand(Decode[buf].val).m = "Err"}

\* the worker of c handles a read that delivered the buffer buf
Read(c, buf) ==
    \/ Utf8Error(c, buf)
    \/ DecodeFail(c, buf)
    \/ Unclassified(c, buf)
    \/ Ping(c, buf)
    \/ Echo(c, buf)
    \/ Set(c, buf)
    \/ Get(c, buf)
    \/ ConfigGet(c, buf)
    \/ Keys(c, buf)

\* the bytes are the frame of a wire Error
ErrorFrame(bytes) ==
    /\ Len(bytes) >= 3
    /\ bytes[1] = "-"
    /\ Drop(bytes, Len(bytes) - 2) = CRLF

\* C12: when a read delivers a well-formed value that is no command, the
\* worker writes a wire Error reply and goes on serving with its store
\* unchanged.
C12_UnclassifiedReply ==
    [][ \A c \in Conns, buf \in NoCommand :
          Read(c, buf) =>
            /\ ev'.w = "bytes" /\ ErrorFrame(ev'.s)
            /\ conn'[c] = conn[c]
            /\ proc' = proc ]_vars

\* C13: when a read delivers bytes that are no frame of a wire value, the
\* worker writes no reply, keeps its store, keeps running and goes on
\* serving the connection.
C13_MalformedIgnored ==
    [][ \A c \in Conns, buf \in Malformed :
          Read(c, buf) =>
            /\ ev'.w = "none"
            /\ conn'[c] = conn[c]
            /\ proc' = proc ]_vars

\* the worker of c has stopped: its loop ended, or the process is gone
Stopped(c) == conn[c].status = "ended" \/ proc = "aborted"

\* C14: a worker's loop ends when a read returns an error, and after the
\* peer closes the connection in an orderly way the worker eventually stops.
C14_LoopTerminates ==
    /\ [][ \A c \in Conns : ReadError(c) => conn'[c].status = "ended" ]_vars
    /\ \A c \in Conns : (conn[c].status = "closed") ~> Stopped(c)

\* C18: after a database section is decoded, the remaining input is what
\* follows the section: it begins at the 0xFE or 0xFF byte after the last
\* record, whatever bytes the records hold.
C18_DbCursor ==
    bench.pc = "db" /\ bench.out.ok => bench.out.rest = bench.following

\* the top two bits and the low six bits of a byte
TopBits(b) == b \div 64
LowBits(b) == b % 64

\* the number a byte, two bytes and four bytes hold as a two's complement
\* big-endian integer
Int8(b) == IF b >= 128 THEN b - 256 ELSE b
Int16(b1, b2) == Int8(b1) * 256 + b2
Int32(b1, b2, b3, b4) == Int8(b1) * 16777216 + b2 * 65536 + b3 * 256 + b4

\* the literal vectors of lengths: the bytes and the number, as its two
\* 16-bit halves (4294967295 = 65535 * 65536 + 65535)
LenVectors ==
    { [bytes |-> <<0>>, hi |-> 0, lo |-> 0],
      [bytes |-> <<63>>, hi |-> 0, lo |-> 63],
      [bytes |-> <<116, 105>>, hi |-> 0, lo |-> 13417],
      [bytes |-> <<127, 255>>, hi |-> 0, lo |-> 16383],
      [bytes |-> <<171, 255, 255, 255, 255>>, hi |-> 65535, lo |-> 65535] }

\* the literal vectors of special selectors
SelectorVectors ==
    { [bytes |-> <<192, 125>>, flag |-> 0],
      [bytes |-> <<193, 219, 140>>, flag |-> 1],
      [bytes |-> <<194, 37, 211, 237, 82>>, flag |-> 2] }

\* the literal vectors of strings
StringVectors ==
    { [bytes |-> <<192, 125>>, val |-> DBInt(125)],
      [bytes |-> <<192, 133>>, val |-> DBInt(-123)],
      [bytes |-> <<193, 219, 140>>, val |-> DBInt(-9332)],
      [bytes |-> <<194, 37, 211, 237, 82>>, val |-> DBInt(634645842)],
      [bytes |-> <<194, 171, 171, 0, 0>>, val |-> DBInt(-1414856704)],
      [bytes |-> <<194, 219, 44, 18, 245>>, val |-> DBInt(-617868555)],
      [bytes |-> PositiveEight,
       val |-> DBStr(<<"P", "o", "s", "i", "t", "i", "v", "e", " ", "8", " ",
                       "b", "i", "t", " ", "i", "n", "t", "e", "g", "e", "r">>)] }

\* C19: a length is decoded by the top two bits of its first byte b: 00 gives
\* the low 6 bits and consumes 1 byte; 01 gives (low 6 bits << 8) | next byte
\* and consumes 2; 10 gives the next 4 bytes as a big-endian u32 and consumes
\* 5; 11 gives the special selector, the low 6 bits.  A string with selector
\* 0, 1 or 2 is the big-endian signed 8-, 16- or 32-bit integer; selector 3
\* and every other selector fail.  The literal vectors decode to the listed
\* values with nothing left over.
C19_LengthTable ==
    /\ bench.pc = "len" /\ Len(bench.in) >= 1 =>
          LET inp == bench.in
              b == inp[1]
              out == bench.out
          IN  /\ TopBits(b) = 0 => out = ROk(Drop(inp, 1), LNum(U32(0, LowBits(b))))
              /\ TopBits(b) = 1 /\ Len(inp) >= 2 =>
                    out = ROk(Drop(inp, 2), LNum(U32(0, LowBits(b) * 256 + inp[2])))
              /\ TopBits(b) = 2 /\ Len(inp) >= 5 =>
                    out = ROk(Drop(inp, 5),
                              LNum(U32(inp[2] * 256 + inp[3], inp[4] * 256 + inp[5])))
              /\ TopBits(b) = 3 => out = ROk(Drop(inp, 1), LSpecial(LowBits(b)))
    /\ bench.pc = "string" /\ Len(bench.in) >= 1 /\ TopBits(bench.in[1]) = 3 =>
          LET inp == bench.in
              flag == LowBits(inp[1])
              out == bench.out
          IN  /\ flag = 0 /\ Len(inp) >= 2 =>
                    out = ROk(Drop(inp, 2), DBInt(Int8(inp[2])))
              /\ flag = 1 /\ Len(inp) >= 3 =>
                    out = ROk(Drop(inp, 3), DBInt(Int16(inp[2], inp[3])))
              /\ flag = 2 /\ Len(inp) >= 5 =>
                    out = ROk(Drop(inp, 5), DBInt(Int32(inp[2], inp[3], inp[4], inp[5])))
              /\ flag >= 3 => ~out.ok
    /\ \A vec \in LenVectors :
          bench.pc = "len" /\ bench.in = vec.bytes =>
            bench.out = ROk(<<>>, LNum(U32(vec.hi, vec.lo)))
    /\ \A vec \in SelectorVectors :
          bench.pc = "len" /\ bench.in = vec.bytes =>
            bench.out.ok /\ bench.out.val = LSpecial(vec.flag)
    /\ \A vec \in StringVectors :
          bench.pc = "string" /\ bench.in = vec.bytes =>
            bench.out = ROk(<<>>, vec.val)

\* a two-byte length, a four-byte length and the special 16-bit integer of
\* the vectors have been decoded
C19_Decoded ==
    \/ /\ bench.pc = "len" /\ bench.in = <<116, 105>>
        /\ bench.out = ROk(<<>>, LNum(U32(0, 13417)))
    \/ /\ bench.pc = "string" /\ bench.in = <<193, 219, 140>>
        /\ bench.out = ROk(<<>>, DBInt(-9332))

\* the path of the snapshot is configured
Configured == config.dir.some /\ config.filename.some

\* the process listens with the dataset of a well-formed snapshot file
Loaded ==
    /\ bench.pc = "listening"
    /\ Configured
    /\ bench.file.exists
    /\ \E s \in ValidSnapshots : s.bytes = bench.file.bytes

\* the records of the file at the path
FileRecords == (CHOOSE s \in ValidSnapshots : s.bytes = bench.file.bytes).records

\* the expiration of a record as the specification states it
Deadline(r) == IF r.deadline.some THEN ExpDate(r.deadline.n) ELSE ExpEmpty

\* the store holds one entry per key of the records, each with the deadline
\* of its record
SeededFrom(store, records) ==
    /\ DOMAIN store = {records[i].key : i \in DOMAIN records}
    /\ \A i \in DOMAIN records : store[records[i].key].expiration = Deadline(records[i])

\* C16: a connection that starts after a well-formed snapshot was loaded has
\* a store with exactly one entry per key of the snapshot, over all its
\* databases, under the text of the key (decimal for an integer key), with
\* the absolute deadline at the record's timestamp or with no expiration;
\* and a GET of such a key before its deadline replies the record's value
\* as a string.
C16_SnapshotSeeding ==
    [][ Loaded =>
          \A c \in Conns :
            /\ Accept(c) => SeededFrom(conn'[c].store, FileRecords)
            /\ \A i \in DOMAIN FileRecords :
                 (GetStep(c, FileRecords[i].key) /\ ~Expired(Deadline(FileRecords[i]))) =>
                    \/ Replied(Canonical(VString(FileRecords[i].val)))
                    \/ Replied(Canonical(VBulk(FileRecords[i].val))) ]_vars

\* C17: when the path of the snapshot is not configured, or no file is
\* there, or the file does not decode, the process still listens once its
\* startup is over, and its dataset is empty.
C17_StartsEmpty ==
    (/\ bench.pc \in {"listening", "exited"}
     /\ (~Configured \/ ~bench.file.exists \/ bench.file.bytes \in BrokenSnapshots))
    => bench.pc = "listening" /\ proc # "exited" /\ rdb = EmptyStore

====
